---- MODULE Spec2Model ----
(***************************************************************************)
(* AccuraRate (src/src/App.js): section extraction from a PDF outline,     *)
(* section alignment, text / numeric comparison and export-row building.   *)
(*                                                                         *)
(* Strings are sequences of one-character strings, so that trim, split and *)
(* the numeric regular expression are computed as the code computes them.  *)
(***************************************************************************)
EXTENDS Integers, Sequences, FiniteSets, TLC

VARIABLES
    \* ---- one parsePdf call (App.js 27-158) ----
    pdf,                \* the decoded document: numPages, outline, pages
    sections,           \* `sections` of parsePdf
    emitted,            \* history: `sections` as processOutline left it (before dedup)
    parseMode,          \* `parseMode` of parsePdf
    extractedSections,  \* `extractedSections` of parsePdf
    pagesRead,          \* history: for each extracted section, the pages fetched for it
    ppc,                \* position in parsePdf
    \* ---- one parseNumericComparison call (App.js 237-282) ----
    callOldText, callNewText,   \* its arguments
    comparison,         \* what it returned
    npc,                \* position: "call" before, "returned" after
    \* ---- the component state (App.js 12-24) ----
    oldPdf, newPdf,
    oldPdfName, newPdfName,
    oldPdfSections, newPdfSections,
    combinedSections, selectedSections,
    onlyNumeric,
    comparisonResult,
    isLoading,
    error,
    fallbackMessage,
    \* ---- around the component ----
    runs,               \* every processFiles call that got past its guard, in start order
    written,            \* the files the latest handleExport wrote (XLSX.writeFile)
    replacedSelection   \* history: the selection map the latest recomputation replaced

parseVars == <<pdf, sections, emitted, parseMode, extractedSections, pagesRead, ppc>>

numericVars == <<callOldText, callNewText, comparison, npc>>

fileVars == <<oldPdf, newPdf, oldPdfName, newPdfName>>

sectionVars == <<oldPdfSections, newPdfSections, combinedSections, selectedSections,
                 replacedSelection>>

appVars == <<fileVars, sectionVars, onlyNumeric, comparisonResult, isLoading, error,
             fallbackMessage, runs, written>>

vars == <<parseVars, numericVars, appVars>>

(***************************************************************************)
(* Bounds of the model                                                     *)
(***************************************************************************)
MaxNodes == 2
MaxPages == 3
MaxLines == 2
MaxParts == 3
MaxRuns == 2

(***************************************************************************)
(* Strings                                                                 *)
(***************************************************************************)
\* pageNum = null (App.js 41)
Null == -1

WhiteSpace == {" ", "\n", "\t", "\r"}

RECURSIVE TrimStart(_)
TrimStart(s) ==
    IF s = <<>> THEN <<>>
    ELSE IF Head(s) \in WhiteSpace THEN TrimStart(Tail(s)) ELSE s

RECURSIVE TrimEnd(_)
TrimEnd(s) ==
    IF s = <<>> THEN <<>>
    ELSE IF s[Len(s)] \in WhiteSpace THEN TrimEnd(SubSeq(s, 1, Len(s) - 1)) ELSE s

\* String.prototype.trim
Trim(s) == TrimEnd(TrimStart(s))

\* the decimal digits of a page number (template literal `Page ${i}`, App.js 128)
DigitChar(d) == <<"0", "1", "2", "3", "4", "5", "6", "7", "8", "9">>[d + 1]

RECURSIVE NumToStr(_)
NumToStr(n) ==
    IF n < 10 THEN <<DigitChar(n)>> ELSE NumToStr(n \div 10) \o <<DigitChar(n % 10)>>

\* Array.prototype.join over strings
RECURSIVE Join(_, _)
Join(strs, sep) ==
    IF strs = <<>> THEN <<>>
    ELSE IF Len(strs) = 1 THEN strs[1]
    ELSE strs[1] \o sep \o Join(Tail(strs), sep)

\* Math.ceil(a / b) for a >= 0, b > 0
Ceil(a, b) == (a + b - 1) \div b

Min(a, b) == IF a <= b THEN a ELSE b

(***************************************************************************)
(* Outline resolution: parsePdf, App.js 39-135                             *)
(***************************************************************************)
\* The page an outline item's destination leads to, or Null (App.js 41-63).
\* item.dest is absent ("none"), a named destination ("name") or an explicit
\* destination array ("array"); dest.page is the 1-based page its reference
\* leads to, 0 when the lookup fails.  pdf.getDestination rejects an explicit
\* destination, so for "array" the page comes from the alternative lookup of
\* item.dest[0] (App.js 54-60).
ResolvePageNum(item) ==
    IF item.dest.kind = "none" THEN Null
    ELSE IF item.dest.kind = "name"
         THEN (IF item.dest.page >= 1 THEN item.dest.page ELSE Null)
         ELSE (IF item.dest.page >= 1 THEN item.dest.page ELSE Null)

\* the loop body without the trim test of App.js 70: any non-empty title is kept
ProcessItem_NoTrimTest(item, level, secs) ==
    LET resolved == ResolvePageNum(item)
        pageNum  == IF resolved = Null /\ item.title # <<>>
                    THEN Len(secs) + 1
                    ELSE resolved
    IN  IF item.title # <<>>
        THEN Append(secs, [title        |-> Trim(item.title),
                           startPage    |-> IF pageNum # Null /\ pageNum # 0
                                            THEN pageNum ELSE Len(secs) + 1,
                           level        |-> level,
                           hasValidPage |-> pageNum # Null])
        ELSE secs

\* The body of the for loop of processOutline for one item, without the
\* recursion into its children (App.js 41-89).  A title is a string, so
\* nothing in the outer try throws and its catch (App.js 79-89) is not taken.
ProcessItem(item, level, secs) ==
    LET resolved == ResolvePageNum(item)
        pageNum  == IF resolved = Null /\ item.title # <<>>
                    THEN Len(secs) + 1
                    ELSE resolved
    IN  IF item.title # <<>> /\ Trim(item.title) # <<>>
        THEN Append(secs, [title        |-> Trim(item.title),
                           startPage    |-> IF pageNum # Null /\ pageNum # 0
                                            THEN pageNum ELSE Len(secs) + 1,
                           level        |-> level,
                           hasValidPage |-> pageNum # Null])
        ELSE secs

\* a traversal that does not go into the children of an item whose page was not resolved
RECURSIVE processOutline_StopsAtFailure(_, _, _)
processOutline_StopsAtFailure(outlineItems, level, secs) ==
    IF outlineItems = <<>> THEN secs
    ELSE LET item      == Head(outlineItems)
             afterItem == ProcessItem(item, level, secs)
             afterKids == IF Len(item.items) > 0 /\ ResolvePageNum(item) # Null
                          THEN processOutline_StopsAtFailure(item.items, level + 1, afterItem)
                          ELSE afterItem
         IN  processOutline_StopsAtFailure(Tail(outlineItems), level, afterKids)

\* processOutline (App.js 39-95): depth-first, children right after their parent
RECURSIVE processOutline(_, _, _)
processOutline(outlineItems, level, secs) ==
    IF outlineItems = <<>> THEN secs
    ELSE LET item      == Head(outlineItems)
             afterItem == ProcessItem(item, level, secs)
             afterKids == IF Len(item.items) > 0
                          THEN processOutline(item.items, level + 1, afterItem)
                          ELSE afterItem
         IN  processOutline(Tail(outlineItems), level, afterKids)

\* self.findIndex(s => s.title === title) (App.js 102), 1-based
FindIndex(secs, title) ==
    CHOOSE i \in 1..Len(secs) :
        /\ secs[i].title = title
        /\ \A j \in 1..(i - 1) : secs[j].title # title

\* the dedup filter (App.js 101-103): an entry stays when it is the first of its title
RECURSIVE DedupFrom(_, _)
DedupFrom(secs, i) ==
    IF i > Len(secs) THEN <<>>
    ELSE (IF i = FindIndex(secs, secs[i].title) THEN <<secs[i]>> ELSE <<>>)
         \o DedupFrom(secs, i + 1)

\* the filter keeping the last entry of each title instead of the first
Dedup_KeepLast(secs) ==
    SelectSeq(secs, LAMBDA s :
        \E i \in 1..Len(secs) :
           /\ secs[i] = s
           /\ \A j \in (i + 1)..Len(secs) : secs[j].title # s.title)

Dedup(secs) == DedupFrom(secs, 1)

\* an insertion that orders the entries of one start page by level, deepest first
RECURSIVE InsertByStartPage_DeepestFirst(_, _)
InsertByStartPage_DeepestFirst(sorted, s) ==
    IF sorted = <<>> THEN <<s>>
    ELSE IF \/ Head(sorted).startPage < s.startPage
            \/ Head(sorted).startPage = s.startPage /\ Head(sorted).level >= s.level
         THEN <<Head(sorted)>> \o InsertByStartPage_DeepestFirst(Tail(sorted), s)
         ELSE <<s>> \o sorted

\* insert s into a list sorted by startPage, after every entry that is not greater
RECURSIVE InsertByStartPage(_, _)
InsertByStartPage(sorted, s) ==
    IF sorted = <<>> THEN <<s>>
    ELSE IF Head(sorted).startPage - s.startPage <= 0
         THEN <<Head(sorted)>> \o InsertByStartPage(Tail(sorted), s)
         ELSE <<s>> \o sorted

\* sort((a, b) => a.startPage - b.startPage) (App.js 109, 113); Array.prototype.sort is stable
RECURSIVE SortByStartPage(_)
SortByStartPage(secs) ==
    IF secs = <<>> THEN <<>>
    ELSE InsertByStartPage(SortByStartPage(SubSeq(secs, 1, Len(secs) - 1)), secs[Len(secs)])

\* page assignment and ordering after dedup (App.js 105-118)
AssignPages(secs, numPages) ==
    LET validPageSections   == SelectSeq(secs, LAMBDA s : s.hasValidPage)
        invalidPageSections == SelectSeq(secs, LAMBDA s : ~s.hasValidPage)
        k                   == Len(invalidPageSections)
    IN  IF Len(validPageSections) > 0
        THEN SortByStartPage(
                 SortByStartPage(validPageSections)
                 \o [i \in 1..k |->
                        [invalidPageSections[i] EXCEPT
                            !.startPage = Ceil(numPages, k + 1) * i]])
        ELSE [i \in 1..Len(secs) |->
                [secs[i] EXCEPT !.startPage = Ceil(numPages, Len(secs)) * (i - 1) + 1]]

\* `Page ${i}` (App.js 128)
PageTitle(i) == <<"P", "a", "g", "e", " ">> \o NumToStr(i)

\* the page-by-page fallback (App.js 127-129)
PageSections(numPages) ==
    [i \in 1..numPages |-> [title |-> PageTitle(i), startPage |-> i, hasValidPage |-> TRUE]]

\* the final list without the clamp
ClampPages_None(secs, numPages) == secs

\* the clamp of every start page to the page count (App.js 131-134)
ClampPages(secs, numPages) ==
    [i \in 1..Len(secs) |-> [secs[i] EXCEPT !.startPage = Min(secs[i].startPage, numPages)]]

\* `sections` after the outline traversal (App.js 97-98)
TraverseOutline(doc) ==
    IF ~doc.outline.isNull /\ Len(doc.outline.items) > 0
    THEN processOutline(doc.outline.items, 0, <<>>)
    ELSE <<>>

\* `sections` after dedup and page assignment (App.js 100-121)
ResolveSections(secs, numPages) ==
    IF Len(secs) > 0 THEN AssignPages(Dedup(secs), numPages) ELSE secs

\* the mode and the final `sections` (App.js 124-135)
FinalMode(secs) == IF Len(secs) = 0 THEN "PAGES" ELSE "TOC"

FinalSections(secs, numPages) ==
    IF Len(secs) = 0 THEN PageSections(numPages) ELSE ClampPages(secs, numPages)

(***************************************************************************)
(* Section text extraction: parsePdf, App.js 137-149                       *)
(***************************************************************************)
\* textContent.items.map(item => item.str).join(' ') of page j (App.js 144-146)
PageText(doc, j) == Join(doc.pages[j], <<" ">>)

\* an end page that takes in the next section's first page
EndPage_Inclusive(secs, i, numPages) ==
    IF i + 1 <= Len(secs) THEN secs[i + 1].startPage ELSE numPages

\* endPage of section i (App.js 140)
EndPage(secs, i, numPages) ==
    IF i + 1 <= Len(secs) THEN secs[i + 1].startPage - 1 ELSE numPages

\* the pages the inner loop fetches for section i, in order (App.js 142-144)
RECURSIVE PagesFrom(_, _, _)
PagesFrom(j, endPage, numPages) ==
    IF j > endPage THEN <<>>
    ELSE (IF j > numPages \/ j < 1 THEN <<>> ELSE <<j>>) \o PagesFrom(j + 1, endPage, numPages)

SectionPages(secs, i, numPages) ==
    PagesFrom(secs[i].startPage, EndPage(secs, i, numPages), numPages)

\* sectionText += ... for every fetched page (App.js 141-147)
RECURSIVE ConcatPages(_, _)
ConcatPages(doc, pageNums) ==
    IF pageNums = <<>> THEN <<>>
    ELSE PageText(doc, Head(pageNums)) \o ConcatPages(doc, Tail(pageNums))

\* extractedSections (App.js 137-149)
ExtractSections(doc, secs) ==
    [i \in 1..Len(secs) |->
        [title |-> secs[i].title,
         text  |-> ConcatPages(doc, SectionPages(secs, i, doc.numPages))]]

\* what parsePdf resolves with for a decodable document (App.js 150)
ParsePdf(doc) ==
    LET resolved == ResolveSections(TraverseOutline(doc), doc.numPages)
    IN  [sections |-> ExtractSections(doc, FinalSections(resolved, doc.numPages)),
         mode     |-> FinalMode(resolved)]

(***************************************************************************)
(* Numeric comparison: App.js 230-282                                      *)
(***************************************************************************)
Digits == {"0", "1", "2", "3", "4", "5", "6", "7", "8", "9"}

IsDigit(s, i) == i >= 1 /\ i <= Len(s) /\ s[i] \in Digits

\* the first index from i on that holds no digit
RECURSIVE DigitsEnd(_, _)
DigitsEnd(s, i) == IF IsDigit(s, i) THEN DigitsEnd(s, i + 1) ELSE i

\* (?:,\d{3})* from index i on: the index after the last thousands group
RECURSIVE GroupsEnd(_, _)
GroupsEnd(s, i) ==
    IF i <= Len(s) /\ s[i] = "," /\ IsDigit(s, i + 1) /\ IsDigit(s, i + 2) /\ IsDigit(s, i + 3)
    THEN GroupsEnd(s, i + 4)
    ELSE i

\* /-?\d+(?:,\d{3})*(?:\.\d+)?/ tried at index i: the index after the match, 0 for no match
MatchNumberAt(s, i) ==
    LET d == IF s[i] = "-" THEN i + 1 ELSE i
    IN  IF ~IsDigit(s, d) THEN 0
        ELSE LET g == GroupsEnd(s, DigitsEnd(s, d))
             IN  IF g <= Len(s) /\ s[g] = "." /\ IsDigit(s, g + 1)
                 THEN DigitsEnd(s, g + 1)
                 ELSE g

\* text.match(numericRegex) || [] (App.js 231-232): the matches from index i on
RECURSIVE MatchNumbers(_, _)
MatchNumbers(s, i) ==
    IF i > Len(s) THEN <<>>
    ELSE LET e == MatchNumberAt(s, i)
         IN  IF e = 0 THEN MatchNumbers(s, i + 1)
             ELSE <<SubSeq(s, i, e - 1)>> \o MatchNumbers(s, e)

\* n.replace(/,/g, '') (App.js 233)
StripCommas(s) == SelectSeq(s, LAMBDA c : c # ",")

\* extractNumerics (App.js 230-234)
extractNumerics(text) ==
    LET numbers == MatchNumbers(text, 1)
    IN  Join([i \in 1..Len(numbers) |-> StripCommas(numbers[i])], <<"\n">>)

\* String.prototype.split on a one-character separator
RECURSIVE Split(_, _)
Split(s, c) ==
    IF \E i \in 1..Len(s) : s[i] = c
    THEN LET i == CHOOSE i \in 1..Len(s) : s[i] = c /\ \A j \in 1..(i - 1) : s[j] # c
         IN  <<SubSeq(s, 1, i - 1)>> \o Split(SubSeq(s, i + 1, Len(s)), c)
    ELSE <<s>>

\* text.split('\n').filter(n => n.trim()) (App.js 238-239)
NonBlankLines(text) == SelectSeq(Split(text, "\n"), LAMBDA n : Trim(n) # <<>>)

\* a Map, kept as its entries in insertion order
MapHas(m, key) == \E i \in 1..Len(m) : m[i].key = key

MapGet(m, key) == m[CHOOSE i \in 1..Len(m) : m[i].key = key].value

\* Map.prototype.set: a key already present keeps its place and takes the new value
MapSet(m, key, value) ==
    IF MapHas(m, key)
    THEN [i \in 1..Len(m) |-> IF m[i].key = key THEN [key |-> key, value |-> value] ELSE m[i]]
    ELSE Append(m, [key |-> key, value |-> value])

\* one line put into the map (App.js 246-251, 254-259):
\* const [variable, value] = line.split('=').map(s => s.trim())
ParseLine(m, line) ==
    LET parts    == Split(line, "=")
        variable == Trim(parts[1])
    IN  IF Len(parts) >= 2 /\ variable # <<>> /\ Trim(parts[2]) # <<>>
        THEN MapSet(m, variable, Trim(parts[2]))
        ELSE m

RECURSIVE ParseLines(_, _)
ParseLines(m, lines) ==
    IF lines = <<>> THEN m ELSE ParseLines(ParseLine(m, Head(lines)), Tail(lines))

\* oldMap / newMap (App.js 238-259)
ValueMap(text) == ParseLines(<<>>, NonBlankLines(text))

\* new Set([...oldMap.keys(), ...newMap.keys()]) (App.js 262), in insertion order
AllVariables(oldMap, newMap) ==
    [i \in 1..Len(oldMap) |-> oldMap[i].key]
    \o SelectSeq([i \in 1..Len(newMap) |-> newMap[i].key], LAMBDA k : ~MapHas(oldMap, k))

\* a missing key read as the empty string instead of "0"
ValueOrZero_Empty(m, key) == IF MapHas(m, key) THEN MapGet(m, key) ELSE <<>>

\* oldMap.get(variable) || '0' (App.js 267-268)
ValueOrZero(m, key) == IF MapHas(m, key) THEN MapGet(m, key) ELSE <<"0">>

\* the loop without the test of App.js 271: every key is reported
RECURSIVE Comparison_NoTest(_, _, _)
Comparison_NoTest(variables, oldMap, newMap) ==
    IF variables = <<>> THEN <<>>
    ELSE LET variable == Head(variables)
         IN  <<[category |-> variable,
                oldValue |-> ValueOrZero(oldMap, variable),
                newValue |-> ValueOrZero(newMap, variable),
                type     |-> "change"]>>
             \o Comparison_NoTest(Tail(variables), oldMap, newMap)

\* the comparison loop (App.js 265-279)
RECURSIVE Comparison(_, _, _)
Comparison(variables, oldMap, newMap) ==
    IF variables = <<>> THEN <<>>
    ELSE LET variable == Head(variables)
             oldValue == ValueOrZero(oldMap, variable)
             newValue == ValueOrZero(newMap, variable)
         IN  (IF oldValue # newValue
              THEN <<[category |-> variable, oldValue |-> oldValue,
                      newValue |-> newValue, type |-> "change"]>>
              ELSE <<>>)
             \o Comparison(Tail(variables), oldMap, newMap)

\* parseNumericComparison (App.js 237-282)
parseNumericComparison(oldText, newText) ==
    LET oldMap == ValueMap(oldText)
        newMap == ValueMap(newText)
    IN  Comparison(AllVariables(oldMap, newMap), oldMap, newMap)

(***************************************************************************)
(* Section alignment: the effect of App.js 189-199                         *)
(***************************************************************************)
\* UTF-16 code units of the characters that occur in titles
CharCode(c) ==
    CASE c = " " -> 32
      [] c = "0" -> 48 [] c = "1" -> 49 [] c = "2" -> 50 [] c = "3" -> 51 [] c = "4" -> 52
      [] c = "5" -> 53 [] c = "6" -> 54 [] c = "7" -> 55 [] c = "8" -> 56 [] c = "9" -> 57
      [] c = "A" -> 65 [] c = "B" -> 66 [] c = "C" -> 67 [] c = "P" -> 80
      [] c = "a" -> 97 [] c = "e" -> 101 [] c = "g" -> 103

\* a < b in the order Array.prototype.sort() uses when it is given no comparator
RECURSIVE StrLess(_, _)
StrLess(a, b) ==
    IF b = <<>> THEN FALSE
    ELSE IF a = <<>> THEN TRUE
    ELSE IF Head(a) = Head(b) THEN StrLess(Tail(a), Tail(b))
    ELSE CharCode(Head(a)) < CharCode(Head(b))

RECURSIVE InsertTitle(_, _)
InsertTitle(sorted, t) ==
    IF sorted = <<>> THEN <<t>>
    ELSE IF StrLess(t, Head(sorted)) THEN <<t>> \o sorted
    ELSE <<Head(sorted)>> \o InsertTitle(Tail(sorted), t)

\* titles.sort() (App.js 192)
RECURSIVE SortTitles(_)
SortTitles(titles) ==
    IF titles = <<>> THEN <<>>
    ELSE InsertTitle(SortTitles(SubSeq(titles, 1, Len(titles) - 1)), titles[Len(titles)])

\* [...new Set(titles)]: the first occurrence of every title, in order
RECURSIVE Unique(_)
Unique(titles) ==
    IF titles = <<>> THEN <<>>
    ELSE LET front == Unique(SubSeq(titles, 1, Len(titles) - 1))
             last  == titles[Len(titles)]
         IN  IF \E i \in 1..Len(front) : front[i] = last THEN front ELSE Append(front, last)

\* allTitles (App.js 190-192)
AllTitles(oldSecs, newSecs) ==
    SortTitles(Unique([i \in 1..Len(oldSecs) |-> oldSecs[i].title]
                      \o [i \in 1..Len(newSecs) |-> newSecs[i].title]))

\* a selection that carries the flags of the titles that were listed before
InitialSelection_KeepsFlags(allTitles) ==
    [t \in {allTitles[i] : i \in 1..Len(allTitles)} |->
        IF t \in DOMAIN selectedSections THEN selectedSections[t] ELSE TRUE]

\* initialSelection (App.js 194-197)
InitialSelection(allTitles) == [t \in {allTitles[i] : i \in 1..Len(allTitles)} |-> TRUE]

(***************************************************************************)
(* Text comparison: diff.diffLines with newlineIsToken and ignoreWhitespace *)
(* as called at App.js 308 (diff 5.2.0, BackUp.js 3)                       *)
(***************************************************************************)
\* The tokens the line differ compares: the text is split at its newlines, each
\* piece is trimmed, and the pieces that are left empty are dropped.
Tokens(text) ==
    LET pieces == Split(text, "\n")
    IN  SelectSeq([i \in 1..Len(pieces) |-> Trim(pieces[i])], LAMBDA t : t # <<>>)

Max(a, b) == IF a >= b THEN a ELSE b

\* length of a longest common subsequence
RECURSIVE LcsLen(_, _)
LcsLen(a, b) ==
    IF a = <<>> \/ b = <<>> THEN 0
    ELSE IF Head(a) = Head(b) THEN 1 + LcsLen(Tail(a), Tail(b))
    ELSE Max(LcsLen(Tail(a), b), LcsLen(a, Tail(b)))

\* a shortest edit script, token by token; at a change the removals come first
RECURSIVE EditScript(_, _)
EditScript(a, b) ==
    IF a = <<>> THEN [i \in 1..Len(b) |-> [value |-> b[i], added |-> TRUE, removed |-> FALSE]]
    ELSE IF b = <<>>
         THEN [i \in 1..Len(a) |-> [value |-> a[i], added |-> FALSE, removed |-> TRUE]]
    ELSE IF Head(a) = Head(b)
         THEN <<[value |-> Head(b), added |-> FALSE, removed |-> FALSE]>>
              \o EditScript(Tail(a), Tail(b))
    ELSE IF LcsLen(Tail(a), b) >= LcsLen(a, Tail(b))
         THEN <<[value |-> Head(a), added |-> FALSE, removed |-> TRUE]>>
              \o EditScript(Tail(a), b)
         ELSE <<[value |-> Head(b), added |-> TRUE, removed |-> FALSE]>>
              \o EditScript(a, Tail(b))

\* neighbouring tokens of one kind make one part, their values joined
RECURSIVE MergeParts(_)
MergeParts(script) ==
    IF Len(script) <= 1 THEN script
    ELSE LET rest == MergeParts(Tail(script))
             p    == Head(script)
         IN  IF p.added = Head(rest).added /\ p.removed = Head(rest).removed
             THEN <<[Head(rest) EXCEPT !.value = p.value \o Head(rest).value]>> \o Tail(rest)
             ELSE <<p>> \o rest

\* diff.diffLines(oldStr, newStr, { newlineIsToken: true, ignoreWhitespace: true })
diffLines(oldStr, newStr) == MergeParts(EditScript(Tokens(oldStr), Tokens(newStr)))

(***************************************************************************)
(* handleCompare: App.js 284-319                                           *)
(***************************************************************************)
\* sections.find(s => s.title === title), then its text or '' (App.js 292-296)
TextOf(secs, title) ==
    IF \E i \in 1..Len(secs) : secs[i].title = title
    THEN secs[CHOOSE i \in 1..Len(secs) :
                 /\ secs[i].title = title
                 /\ \A j \in 1..(i - 1) : secs[j].title # title].text
    ELSE <<>>

\* selectedSections[title], undefined counting as false (App.js 290)
IsSelected(selected, title) == title \in DOMAIN selected /\ selected[title]

\* the text comparison of a title without the selection test of App.js 290
CompareTitle_Unselected(title, selected, oldSecs, newSecs, numeric) ==
    LET changes == SelectSeq(diffLines(Trim(TextOf(oldSecs, title)),
                                       Trim(TextOf(newSecs, title))),
                             LAMBDA part : part.added \/ part.removed)
    IN  IF Len(changes) > 0 THEN <<[title |-> title, changes |-> changes]>> ELSE <<>>

\* what one title adds to `results` (App.js 290-314)
CompareTitle(title, selected, oldSecs, newSecs, numeric) ==
    IF ~IsSelected(selected, title) THEN <<>>
    ELSE LET oldText == TextOf(oldSecs, title)
             newText == TextOf(newSecs, title)
         IN  IF numeric
             THEN LET numericComparison ==
                          parseNumericComparison(extractNumerics(oldText),
                                                 extractNumerics(newText))
                  IN  IF Len(numericComparison) > 0
                      THEN <<[title |-> title, numericChanges |-> numericComparison]>>
                      ELSE <<>>
             ELSE LET changes == SelectSeq(diffLines(Trim(oldText), Trim(newText)),
                                           LAMBDA part : part.added \/ part.removed)
                  IN  IF Len(changes) > 0
                      THEN <<[title |-> title, changes |-> changes]>>
                      ELSE <<>>

\* `results` of handleCompare (App.js 287-315)
RECURSIVE CompareResults(_, _, _, _, _)
CompareResults(titles, selected, oldSecs, newSecs, numeric) ==
    IF titles = <<>> THEN <<>>
    ELSE CompareTitle(Head(titles), selected, oldSecs, newSecs, numeric)
         \o CompareResults(Tail(titles), selected, oldSecs, newSecs, numeric)

(***************************************************************************)
(* handleExport: App.js 321-375                                            *)
(***************************************************************************)
\* the rows of one section's numeric changes (App.js 326-334)
NumericRows(title, numericChanges) ==
    [i \in 1..Len(numericChanges) |->
        [sectionTitle   |-> title,
         category       |-> numericChanges[i].category,
         oldValue       |-> numericChanges[i].oldValue,
         newValue       |-> numericChanges[i].newValue,
         differenceType |-> "Numeric"]]

\* the while loop stepping by one after a pair instead of two
RECURSIVE TextRows_StepOne(_, _, _, _)
TextRows_StepOne(title, changes, i, numeric) ==
    IF i > Len(changes) THEN <<>>
    ELSE LET current == changes[i]
             hasNext == i + 1 <= Len(changes)
             row     == [sectionTitle   |-> title,
                         oldValue       |-> <<>>,
                         newValue       |-> <<>>,
                         differenceType |-> IF numeric THEN "Numeric" ELSE "Textual"]
         IN  (IF current.removed /\ hasNext /\ changes[i + 1].added
              THEN <<[row EXCEPT !.oldValue = Trim(current.value),
                                 !.newValue = Trim(changes[i + 1].value)]>>
              ELSE IF current.removed
              THEN <<[row EXCEPT !.oldValue = Trim(current.value)]>>
              ELSE <<[row EXCEPT !.newValue = Trim(current.value)]>>)
             \o TextRows_StepOne(title, changes, i + 1, numeric)

\* the while loop over one section's changes, from index i on (App.js 337-363)
RECURSIVE TextRows(_, _, _, _)
TextRows(title, changes, i, numeric) ==
    IF i > Len(changes) THEN <<>>
    ELSE LET current == changes[i]
             hasNext == i + 1 <= Len(changes)
             row     == [sectionTitle   |-> title,
                         oldValue       |-> <<>>,
                         newValue       |-> <<>>,
                         differenceType |-> IF numeric THEN "Numeric" ELSE "Textual"]
         IN  IF current.removed /\ hasNext /\ changes[i + 1].added
             THEN <<[row EXCEPT !.oldValue = Trim(current.value),
                                !.newValue = Trim(changes[i + 1].value)]>>
                  \o TextRows(title, changes, i + 2, numeric)
             ELSE IF current.removed
             THEN <<[row EXCEPT !.oldValue = Trim(current.value)]>>
                  \o TextRows(title, changes, i + 1, numeric)
             ELSE IF current.added
             THEN <<[row EXCEPT !.newValue = Trim(current.value)]>>
                  \o TextRows(title, changes, i + 1, numeric)
             ELSE <<row>> \o TextRows(title, changes, i + 1, numeric)

\* exportData (App.js 322-365)
RECURSIVE ExportData(_, _)
ExportData(result, numeric) ==
    IF result = <<>> THEN <<>>
    ELSE LET entry == Head(result)
         IN  (IF "numericChanges" \in DOMAIN entry
              THEN NumericRows(entry.title, entry.numericChanges)
              ELSE TextRows(entry.title, entry.changes, 1, numeric))
             \o ExportData(Tail(result), numeric)

(***************************************************************************)
(* Documents one parsePdf call is checked on                               *)
(***************************************************************************)
Titles == { <<" ">>, <<"A">>, <<" ", "A">>, <<"B">> }

Dests(numPages) ==
    {[kind |-> "none"]}
    \cup {[kind |-> "name", page |-> p] : p \in 0..numPages}
    \cup {[kind |-> "array", page |-> p] : p \in 0..1}

\* the depths of the nodes of an outline of n nodes, in depth-first order:
\* the first node is a root, and a node is at most one level below the node before it
LevelSeqs(n) ==
    { lv \in [1..n -> 0..(MaxNodes - 1)] :
        /\ n >= 1 => lv[1] = 0
        /\ \A i \in 2..n : lv[i] <= lv[i - 1] + 1 }

\* the last node of the subtree of node i
SubtreeEnd(lv, i) ==
    IF \E j \in (i + 1)..Len(lv) : lv[j] <= lv[i]
    THEN (CHOOSE j \in (i + 1)..Len(lv) :
              /\ lv[j] <= lv[i]
              /\ \A m \in (i + 1)..(j - 1) : lv[m] > lv[i]) - 1
    ELSE Len(lv)

\* the outline items that nodes lo..hi make (node lo is the first item)
RECURSIVE Forest(_, _, _, _)
Forest(lv, lab, lo, hi) ==
    IF lo > hi THEN <<>>
    ELSE LET e == Min(SubtreeEnd(lv, lo), hi)
         IN  <<[title |-> lab[lo][1], dest |-> lab[lo][2],
                items |-> Forest(lv, lab, lo + 1, e)]>>
             \o Forest(lv, lab, e + 1, hi)

\* page j holds the two text items "p" and the page number
DefaultPages(numPages) == [j \in 1..numPages |-> << <<"p">>, NumToStr(j) >>]

(***************************************************************************)
(* The files a user can pick, and the documents behind them                *)
(***************************************************************************)
\* no file: the initial null of oldPdf / newPdf, or an empty file list
NoFile == [none |-> TRUE]

PdfFiles ==
    { [name |-> n, type |-> "application/pdf"] :
        n \in {"a.pdf", "b.pdf", "c.pdf", "d.pdf", "x.pdf"} }

Files == PdfFiles \cup { [name |-> "t.txt", type |-> "text/plain"] }

\* one text item per page
OnePage(str) == <<str>>

OutlineItem(title, page) ==
    [title |-> title, dest |-> [kind |-> "name", page |-> page], items |-> <<>>]

\* What pdfjsLib.getDocument yields for a file (App.js 34).
\*   a.pdf  outline: A (page 1);              page 1 "r=1\nk=2"
\*   b.pdf  outline: A (page 1), B (page 2), C (page 3);
\*          page 1 "k=2\nf=5", page 2 "z", page 3 "u"
\*   d.pdf  outline: A (page 1), B (page 2), C (page 3);
\*          page 1 "r=1\nk=2", page 2 " z", page 3 "v"
\*   c.pdf  no outline;                       page 1 "r=1"
\*   x.pdf  cannot be decoded
Content(file) ==
    CASE file.name = "a.pdf" ->
            [decodable |-> TRUE, numPages |-> 1,
             outline |-> [isNull |-> FALSE, items |-> <<OutlineItem(<<"A">>, 1)>>],
             pages |-> <<OnePage(<<"r", "=", "1", "\n", "k", "=", "2">>)>>]
      [] file.name = "b.pdf" ->
            [decodable |-> TRUE, numPages |-> 3,
             outline |-> [isNull |-> FALSE,
                          items |-> <<OutlineItem(<<"A">>, 1), OutlineItem(<<"B">>, 2),
                                      OutlineItem(<<"C">>, 3)>>],
             pages |-> <<OnePage(<<"k", "=", "2", "\n", "f", "=", "5">>), OnePage(<<"z">>),
                         OnePage(<<"u">>)>>]
      [] file.name = "d.pdf" ->
            [decodable |-> TRUE, numPages |-> 3,
             outline |-> [isNull |-> FALSE,
                          items |-> <<OutlineItem(<<"A">>, 1), OutlineItem(<<"B">>, 2),
                                      OutlineItem(<<"C">>, 3)>>],
             pages |-> <<OnePage(<<"r", "=", "1", "\n", "k", "=", "2">>),
                         OnePage(<<" ", "z">>), OnePage(<<"v">>)>>]
      [] file.name = "c.pdf" ->
            [decodable |-> TRUE, numPages |-> 1,
             outline |-> [isNull |-> TRUE],
             pages |-> <<OnePage(<<"r", "=", "1">>)>>]
      [] OTHER ->
            [decodable |-> FALSE, message |-> "Invalid PDF structure."]

\* the values of `error` ('' is the empty sequence)
NoError == <<>>

InvalidFileError == <<"Please select a valid PDF file.">>

ParseError(message) ==
    <<"Failed to parse PDF: ", message, ". Please ensure the file is not corrupted.">>

NoDiffError == <<"No differences to export.">>

FallbackNotice ==
    "One or both PDFs lacked a table of contents. Comparison is based on page numbers."

(***************************************************************************)
(* Initial values                                                          *)
(***************************************************************************)
\* no parsePdf call is being followed
ParseIdle ==
    /\ pdf = [numPages |-> 1, outline |-> [isNull |-> TRUE], pages |-> DefaultPages(1)]
    /\ sections = <<>>
    /\ emitted = <<>>
    /\ parseMode = "TOC"
    /\ extractedSections = <<>>
    /\ pagesRead = <<>>
    /\ ppc = "idle"

\* no parseNumericComparison call is being followed
NumericIdle ==
    /\ callOldText = <<>>
    /\ callNewText = <<>>
    /\ comparison = <<>>
    /\ npc = "idle"

\* the component as mounted (App.js 11-24; the effects of App.js 160-199 change nothing)
AppInit ==
    /\ oldPdf = NoFile
    /\ newPdf = NoFile
    /\ oldPdfName = ""
    /\ newPdfName = ""
    /\ oldPdfSections = <<>>
    /\ newPdfSections = <<>>
    /\ combinedSections = <<>>
    /\ selectedSections = InitialSelection(<<>>)
    /\ replacedSelection = InitialSelection(<<>>)
    /\ onlyNumeric = FALSE
    /\ comparisonResult = <<>>
    /\ isLoading = FALSE
    /\ error = NoError
    /\ fallbackMessage = ""
    /\ runs = <<>>
    /\ written = <<>>

(***************************************************************************)
(* One parsePdf call, step by step                                         *)
(***************************************************************************)
ParseInit ==
    /\ \E P \in 1..MaxPages :
          \/ pdf = [numPages |-> P, outline |-> [isNull |-> TRUE], pages |-> DefaultPages(P)]
          \/ \E n \in 0..MaxNodes :
                \E lv \in LevelSeqs(n), lab \in [1..n -> Titles \X Dests(P)] :
                   pdf = [numPages |-> P,
                          outline  |-> [isNull |-> FALSE, items |-> Forest(lv, lab, 1, n)],
                          pages    |-> DefaultPages(P)]
    /\ sections = <<>>
    /\ emitted = <<>>
    /\ parseMode = "TOC"
    /\ extractedSections = <<>>
    /\ pagesRead = <<>>
    /\ ppc = "outline"
    /\ NumericIdle
    /\ AppInit

\* App.js 97-98: the traversal of the outline
Traverse ==
    /\ ppc = "outline"
    /\ sections' = TraverseOutline(pdf)
    /\ emitted' = TraverseOutline(pdf)
    /\ ppc' = "resolve"
    /\ UNCHANGED <<pdf, parseMode, extractedSections, pagesRead, numericVars, appVars>>

\* App.js 100-135: dedup, page assignment, fallback or clamp
Finalize ==
    /\ ppc = "resolve"
    /\ LET resolved == ResolveSections(sections, pdf.numPages)
       IN  /\ sections' = FinalSections(resolved, pdf.numPages)
           /\ parseMode' = FinalMode(resolved)
    /\ ppc' = "extract"
    /\ UNCHANGED <<pdf, emitted, extractedSections, pagesRead, numericVars, appVars>>

\* App.js 137-150: the text of every section, then resolve
Extract ==
    /\ ppc = "extract"
    /\ extractedSections' = ExtractSections(pdf, sections)
    /\ pagesRead' = [i \in 1..Len(sections) |-> SectionPages(sections, i, pdf.numPages)]
    /\ ppc' = "done"
    /\ UNCHANGED <<pdf, sections, emitted, parseMode, numericVars, appVars>>

ParseNext == Traverse \/ Finalize \/ Extract

SpecParse == ParseInit /\ [][ParseNext]_vars

(***************************************************************************)
(* One parseNumericComparison call                                         *)
(***************************************************************************)
\* the lines the texts are made of
NumericLines ==
    { <<"r", "=", "1">>, <<"r", " ", "=", " ", "2">>, <<"f", "=", "0">>, <<"f", "=", "5">>,
      <<"x">>, <<"r", "=", "1", "=", "2">>, <<"=", "3">>, <<"f", "=">> }

\* every text of at most MaxLines of these lines, joined by newlines
NumericTexts ==
    UNION { { Join(ls, <<"\n">>) : ls \in [1..n -> NumericLines] } : n \in 0..MaxLines }

NumericInit ==
    /\ callOldText \in NumericTexts
    /\ callNewText \in NumericTexts
    /\ comparison = <<>>
    /\ npc = "call"
    /\ ParseIdle
    /\ AppInit

\* App.js 237-282
ParseNumeric ==
    /\ npc = "call"
    /\ comparison' = parseNumericComparison(callOldText, callNewText)
    /\ npc' = "returned"
    /\ UNCHANGED <<callOldText, callNewText, parseVars, appVars>>

SpecNumeric == NumericInit /\ [][ParseNumeric]_vars

(***************************************************************************)
(* The component's handlers and effects                                    *)
(***************************************************************************)
\* a test that accepts a file of any type
IsPdf_AnyType(file) == file # NoFile

IsPdf(file) == file # NoFile /\ file.type = "application/pdf"

\* the effect of App.js 189-199, run with the section lists just set
Recompute(oldSecs, newSecs) ==
    /\ combinedSections' = AllTitles(oldSecs, newSecs)
    /\ selectedSections' = InitialSelection(AllTitles(oldSecs, newSecs))
    /\ replacedSelection' = selectedSections

\* handleFileChange (App.js 201-224) and, as oldPdf or newPdf changed, the
\* effect that calls processFiles up to its await (App.js 160-168)
HandleFileChange(type, file) ==
    LET valid   == IsPdf(file)
        nextOld == IF type = "old" THEN (IF valid THEN file ELSE NoFile) ELSE oldPdf
        nextNew == IF type = "new" THEN (IF valid THEN file ELSE NoFile) ELSE newPdf
        starts  == valid /\ nextOld # NoFile /\ nextNew # NoFile
    IN  /\ starts => Len(runs) < MaxRuns
        /\ oldPdf' = nextOld
        /\ newPdf' = nextNew
        /\ oldPdfName' = IF type = "old" THEN (IF valid THEN file.name ELSE "") ELSE oldPdfName
        /\ newPdfName' = IF type = "new" THEN (IF valid THEN file.name ELSE "") ELSE newPdfName
        /\ error' = IF valid THEN NoError ELSE InvalidFileError
        /\ IF starts
           THEN /\ isLoading' = TRUE
                /\ fallbackMessage' = ""
                /\ comparisonResult' = <<>>
                /\ runs' = Append(runs, [old |-> nextOld, new |-> nextNew,
                                         oldTask |-> "pending", newTask |-> "pending",
                                         state |-> "pending"])
           ELSE UNCHANGED <<isLoading, fallbackMessage, comparisonResult, runs>>
        /\ UNCHANGED <<sectionVars, onlyNumeric, written, parseVars, numericVars>>

\* a processFiles call that has run to its end: only its outcome is kept
Finished(outcome) == [state |-> outcome]

\* Promise.all fulfils (App.js 168): the rest of the try block, the finally, and
\* the effect of App.js 189-199 that the new section lists trigger
ResolveRun(r, oldResult, newResult) ==
    /\ oldPdfSections' = oldResult.sections
    /\ newPdfSections' = newResult.sections
    /\ fallbackMessage' = IF oldResult.mode = "PAGES" \/ newResult.mode = "PAGES"
                          THEN FallbackNotice ELSE fallbackMessage
    /\ isLoading' = FALSE
    /\ Recompute(oldResult.sections, newResult.sections)
    /\ runs' = [runs EXCEPT ![r] = Finished("resolved")]
    /\ UNCHANGED error

\* a catch that also empties the two section lists
RejectRun_ClearsSections(r, side, message) ==
    /\ error' = ParseError(message)
    /\ isLoading' = FALSE
    /\ runs' = [runs EXCEPT ![r] = Finished("rejected")]
    /\ oldPdfSections' = <<>>
    /\ newPdfSections' = <<>>
    /\ UNCHANGED <<combinedSections, selectedSections, replacedSelection, fallbackMessage>>

\* a catch whose finally does not run: the loading flag is left as it was
RejectRun_NoFinally(r, side, message) ==
    /\ error' = ParseError(message)
    /\ runs' = [runs EXCEPT ![r] = Finished("rejected")]
    /\ UNCHANGED <<sectionVars, fallbackMessage, isLoading>>

\* Promise.all rejects (App.js 168): the catch and the finally (App.js 179-184)
RejectRun(r, side, message) ==
    /\ error' = ParseError(message)
    /\ isLoading' = FALSE
    /\ runs' = [runs EXCEPT ![r] = Finished("rejected")]
    /\ UNCHANGED <<sectionVars, fallbackMessage>>

\* One parsePdf task of run r settles (App.js 27-158).  When that settles the
\* Promise.all of the run, processFiles goes on in the same turn.  A task that
\* settles after its run was rejected changes nothing and is left out.
TaskDone(r, side) ==
    /\ r \in 1..Len(runs)
    /\ runs[r].state = "pending"
    /\ runs[r][side] = "pending"
    /\ LET file  == IF side = "oldTask" THEN runs[r].old ELSE runs[r].new
           other == IF side = "oldTask" THEN runs[r].newTask ELSE runs[r].oldTask
       IN  IF ~Content(file).decodable
           THEN RejectRun(r, side, Content(file).message)
           ELSE IF other = "ok"
           THEN ResolveRun(r, ParsePdf(Content(runs[r].old)), ParsePdf(Content(runs[r].new)))
           ELSE /\ runs' = [runs EXCEPT ![r][side] = "ok"]
                /\ UNCHANGED <<sectionVars, fallbackMessage, isLoading, error>>
    /\ UNCHANGED <<fileVars, onlyNumeric, comparisonResult, written, parseVars, numericVars>>

\* handleSectionToggle (App.js 226-228), from the checkbox of a listed title
HandleSectionToggle(title) ==
    /\ \E i \in 1..Len(combinedSections) : combinedSections[i] = title
    /\ selectedSections' =
          [t \in DOMAIN selectedSections \cup {title} |->
              IF t = title THEN ~IsSelected(selectedSections, title) ELSE selectedSections[t]]
    /\ UNCHANGED <<fileVars, oldPdfSections, newPdfSections, combinedSections,
                   replacedSelection, onlyNumeric, comparisonResult, isLoading, error,
                   fallbackMessage, runs, written, parseVars, numericVars>>

\* the numeric-only checkbox (App.js 798-802)
SetOnlyNumeric ==
    /\ onlyNumeric' = ~onlyNumeric
    /\ UNCHANGED <<fileVars, sectionVars, comparisonResult, isLoading, error,
                   fallbackMessage, runs, written, parseVars, numericVars>>

\* handleCompare (App.js 284-319), from the button of App.js 808-811
HandleCompare ==
    /\ ~isLoading
    /\ oldPdf # NoFile
    /\ newPdf # NoFile
    /\ error' = NoError
    /\ comparisonResult' = CompareResults(combinedSections, selectedSections,
                                          oldPdfSections, newPdfSections, onlyNumeric)
    /\ isLoading' = FALSE
    /\ UNCHANGED <<fileVars, sectionVars, onlyNumeric, fallbackMessage, runs, written,
                   parseVars, numericVars>>

\* an export that reports the message after it has written the file
HandleExport_AlwaysReports ==
    /\ Len(comparisonResult) > 0
    /\ written' = <<ExportData(comparisonResult, onlyNumeric)>>
    /\ error' = NoDiffError
    /\ UNCHANGED <<fileVars, sectionVars, onlyNumeric, comparisonResult, isLoading,
                   fallbackMessage, runs, parseVars, numericVars>>

\* handleExport (App.js 321-375), from the button of App.js 826-828
HandleExport ==
    /\ Len(comparisonResult) > 0
    /\ LET exportData == ExportData(comparisonResult, onlyNumeric)
       IN  IF Len(exportData) > 0
           THEN /\ written' = <<exportData>>
                /\ UNCHANGED error
           ELSE /\ error' = NoDiffError
                /\ UNCHANGED written
    /\ UNCHANGED <<fileVars, sectionVars, onlyNumeric, comparisonResult, isLoading,
                   fallbackMessage, runs, parseVars, numericVars>>

\* File selection, extraction runs, section selection and comparison.  The
\* files picked here are a.pdf, c.pdf, x.pdf, t.txt and none at all.
AppFiles == { f \in Files : f.name \in {"a.pdf", "c.pdf", "x.pdf", "t.txt"} } \cup {NoFile}

AppNext ==
    \/ \E type \in {"old", "new"}, file \in AppFiles : HandleFileChange(type, file)
    \/ \E r \in 1..MaxRuns, side \in {"oldTask", "newTask"} : TaskDone(r, side)
    \/ \E title \in {combinedSections[i] : i \in 1..Len(combinedSections)} :
          HandleSectionToggle(title)
    \/ HandleCompare

\* the component as mounted: no file chosen, no call in progress
Mounted ==
    /\ AppInit
    /\ ParseIdle
    /\ NumericIdle

SpecApp == Mounted /\ [][AppNext]_vars

\* What the settling of a pending parsePdf task of run r does to the record of
\* the run: the task is noted as fulfilled, or the run ends resolved or
\* rejected (the promise of App.js 31 is settled at App.js 150, 152 or 155).
\* It is enabled exactly when TaskDone(r, side) is, and every TaskDone(r, side)
\* step is such a step.
TaskSettles(r, side) ==
    /\ r \in 1..Len(runs)
    /\ runs[r].state = "pending"
    /\ runs[r][side] = "pending"
    /\ runs' \in { [runs EXCEPT ![r][side] = "ok"],
                   [runs EXCEPT ![r] = Finished("resolved")],
                   [runs EXCEPT ![r] = Finished("rejected")] }

\* The same component when every parsePdf task that was started settles: each
\* call of the document capability returns or fails, so a pending task of a
\* pending run is not postponed forever.
SpecAppFair ==
    /\ Mounted
    /\ [][AppNext]_vars
    /\ \A r \in 1..MaxRuns, side \in {"oldTask", "newTask"} : WF_runs(TaskSettles(r, side))

(***************************************************************************)
(* Comparison and export of a loaded pair of documents                     *)
(***************************************************************************)
\* the pairs are made of b.pdf, c.pdf and d.pdf
LoadedFiles == { f \in PdfFiles : f.name \in {"b.pdf", "c.pdf", "d.pdf"} }

\* the component after one extraction run on a decodable pair has resolved
CompareInit ==
    /\ \E old \in LoadedFiles, new \in LoadedFiles :
          LET oldResult == ParsePdf(Content(old))
              newResult == ParsePdf(Content(new))
          IN  /\ oldPdf = old
              /\ newPdf = new
              /\ oldPdfName = old.name
              /\ newPdfName = new.name
              /\ oldPdfSections = oldResult.sections
              /\ newPdfSections = newResult.sections
              /\ combinedSections = AllTitles(oldResult.sections, newResult.sections)
              /\ selectedSections =
                    InitialSelection(AllTitles(oldResult.sections, newResult.sections))
              /\ fallbackMessage = IF oldResult.mode = "PAGES" \/ newResult.mode = "PAGES"
                                   THEN FallbackNotice ELSE ""
    /\ replacedSelection = InitialSelection(<<>>)
    /\ onlyNumeric = FALSE
    /\ comparisonResult = <<>>
    /\ isLoading = FALSE
    /\ error = NoError
    /\ runs = <<Finished("resolved")>>
    /\ written = <<>>
    /\ ParseIdle
    /\ NumericIdle

CompareNext ==
    \/ \E title \in {combinedSections[i] : i \in 1..Len(combinedSections)} :
          HandleSectionToggle(title)
    \/ SetOnlyNumeric
    \/ HandleCompare
    \/ HandleExport

SpecCompare == CompareInit /\ [][CompareNext]_vars

(***************************************************************************)
(* handleExport on any comparison result of one section                    *)
(***************************************************************************)
PartValues == { <<"A">>, <<"B">> }

ChangedParts ==
    { [value |-> v, added |-> a, removed |-> ~a] : v \in PartValues, a \in BOOLEAN }

\* a text-mode result of one section whose diff left 1..MaxParts changed parts
ExportInit ==
    /\ \E n \in 1..MaxParts :
          \E changes \in [1..n -> ChangedParts] :
             comparisonResult = <<[title |-> <<"A">>, changes |-> changes]>>
    /\ onlyNumeric \in BOOLEAN
    /\ oldPdf = NoFile
    /\ newPdf = NoFile
    /\ oldPdfName = ""
    /\ newPdfName = ""
    /\ oldPdfSections = <<>>
    /\ newPdfSections = <<>>
    /\ combinedSections = <<>>
    /\ selectedSections = InitialSelection(<<>>)
    /\ replacedSelection = InitialSelection(<<>>)
    /\ isLoading = FALSE
    /\ error = NoError
    /\ fallbackMessage = ""
    /\ runs = <<>>
    /\ written = <<>>
    /\ ParseIdle
    /\ NumericIdle

SpecExport == ExportInit /\ [][HandleExport]_vars

(***************************************************************************)
(* The row builder of handleExport on any sequence of diff parts           *)
(***************************************************************************)
\* the parts diff.diffLines can return: removed, added or unchanged
AnyParts ==
    { [value |-> v, added |-> a, removed |-> r] :
        v \in PartValues, a \in BOOLEAN, r \in BOOLEAN } \
    { [value |-> v, added |-> TRUE, removed |-> TRUE] : v \in PartValues }

\* a result of one section with 1..MaxParts parts of any kind.  The loop of
\* App.js 337-363 tests every part for removed and added and has a branch for
\* a part with neither (App.js 359-361); handleCompare stores changed parts
\* only (App.js 309), so the loop is followed here on the lists it is written for.
RowsInit ==
    /\ \E n \in 1..MaxParts :
          \E changes \in [1..n -> AnyParts] :
             comparisonResult = <<[title |-> <<"A">>, changes |-> changes]>>
    /\ onlyNumeric \in BOOLEAN
    /\ oldPdf = NoFile
    /\ newPdf = NoFile
    /\ oldPdfName = ""
    /\ newPdfName = ""
    /\ oldPdfSections = <<>>
    /\ newPdfSections = <<>>
    /\ combinedSections = <<>>
    /\ selectedSections = InitialSelection(<<>>)
    /\ replacedSelection = InitialSelection(<<>>)
    /\ isLoading = FALSE
    /\ error = NoError
    /\ fallbackMessage = ""
    /\ runs = <<>>
    /\ written = <<>>
    /\ ParseIdle
    /\ NumericIdle

SpecRows == RowsInit /\ [][HandleExport]_vars

(***************************************************************************)
(* Properties of one parsePdf call                                         *)
(***************************************************************************)
\* the outline's nodes in depth-first order, each with its trimmed title and depth
RECURSIVE OutlineNodes(_, _)
OutlineNodes(items, level) ==
    IF items = <<>> THEN <<>>
    ELSE <<[title |-> Trim(Head(items).title), level |-> level]>>
         \o OutlineNodes(Head(items).items, level + 1)
         \o OutlineNodes(Tail(items), level)

TitledNodes ==
    IF pdf.outline.isNull THEN <<>>
    ELSE SelectSeq(OutlineNodes(pdf.outline.items, 0), LAMBDA n : n.title # <<>>)

\* how many times page p was fetched over all sections
RECURSIVE TimesRead(_, _)
TimesRead(reads, p) ==
    IF reads = <<>> THEN 0
    ELSE Cardinality({k \in 1..Len(Head(reads)) : Head(reads)[k] = p})
         + TimesRead(Tail(reads), p)

\* C1: once parsePdf has extracted the section texts, every page 1..P has been
\* read into exactly one section: no page is left out and none is read twice.
C1_Coverage ==
    ppc = "done" => \A p \in 1..pdf.numPages : TimesRead(pagesRead, p) = 1

\* C2: after outline resolution no two sections share a title, and the section
\* kept for a title is the first node of that trimmed title in depth-first
\* order, with that node's level.
C2_DedupFirstWins ==
    (ppc \in {"extract", "done"} /\ parseMode = "TOC") =>
        /\ \A i, j \in 1..Len(sections) :
              sections[i].title = sections[j].title => i = j
        /\ {sections[i].title : i \in 1..Len(sections)}
              = {TitledNodes[k].title : k \in 1..Len(TitledNodes)}
        /\ \A i \in 1..Len(sections) :
              \E k \in 1..Len(TitledNodes) :
                 /\ TitledNodes[k].title = sections[i].title
                 /\ \A m \in 1..(k - 1) : TitledNodes[m].title # sections[i].title
                 /\ sections[i].level = TitledNodes[k].level

\* C2 witness: two nodes of one trimmed title at different depths were resolved
C2_Witness ==
    /\ ppc = "done"
    /\ parseMode = "TOC"
    /\ \E k, m \in 1..Len(TitledNodes) :
          /\ k < m
          /\ TitledNodes[k].title = TitledNodes[m].title
          /\ TitledNodes[k].level # TitledNodes[m].level

\* C3: parsePdf falls back to one section per page, "Page 1" .. "Page P" with
\* section n starting at page n and mode PAGES, exactly when the outline is
\* null, empty or without a node of non-empty trimmed title; otherwise the mode
\* is TOC and every section comes from an outline node.
C3_FallbackTrigger ==
    ppc = "done" =>
        IF Len(TitledNodes) = 0
        THEN /\ parseMode = "PAGES"
             /\ Len(sections) = pdf.numPages
             /\ Len(extractedSections) = pdf.numPages
             /\ \A n \in 1..pdf.numPages :
                   /\ sections[n].title = PageTitle(n)
                   /\ sections[n].startPage = n
                   /\ extractedSections[n].title = PageTitle(n)
        ELSE /\ parseMode = "TOC"
             /\ \A i \in 1..Len(sections) :
                   /\ "level" \in DOMAIN sections[i]
                   /\ \E k \in 1..Len(TitledNodes) : TitledNodes[k].title = sections[i].title
                   /\ \A n \in 1..pdf.numPages : sections[i].title # PageTitle(n)

\* C3 witness: an outline that has nodes, none of them titled, fell back to pages
C3_Witness ==
    /\ ppc = "done"
    /\ ~pdf.outline.isNull
    /\ Len(pdf.outline.items) > 0
    /\ parseMode = "PAGES"
    /\ pdf.numPages >= 2


(***************************************************************************)
(* Properties of parseNumericComparison                                    *)
(***************************************************************************)
\* the keys of a map
Keys(m) == {m[i].key : i \in 1..Len(m)}

\* the value a side shows for a key: the one of its map, "0" when it has none
Shown(m, key) == IF key \in Keys(m) THEN MapGet(m, key) ELSE <<"0">>

\* the indices of `comparison` that report a key
ReportsOf(key) == {i \in 1..Len(comparison) : comparison[i].category = key}

\* C5: parseNumericComparison returns exactly one change for each key of the
\* union of the two key sets whose shown values differ (a missing side shows
\* "0"), none for a key whose values are equal, and every returned change has
\* an oldValue different from its newValue.
C5_ExactChanges ==
    npc = "returned" =>
        LET oldMap == ValueMap(callOldText)
            newMap == ValueMap(callNewText)
        IN  /\ \A key \in Keys(oldMap) \cup Keys(newMap) :
                  IF Shown(oldMap, key) # Shown(newMap, key)
                  THEN /\ Cardinality(ReportsOf(key)) = 1
                       /\ \A i \in ReportsOf(key) :
                             /\ comparison[i].oldValue = Shown(oldMap, key)
                             /\ comparison[i].newValue = Shown(newMap, key)
                  ELSE ReportsOf(key) = {}
            /\ \A i \in 1..Len(comparison) :
                  /\ comparison[i].category \in Keys(oldMap) \cup Keys(newMap)
                  /\ comparison[i].oldValue # comparison[i].newValue

\* C5 witness: a call returned with a key of both sides that changed value and
\* is reported, and a key of both sides with equal values that is left out
C5_Witness ==
    /\ npc = "returned"
    /\ LET oldMap == ValueMap(callOldText)
           newMap == ValueMap(callNewText)
       IN  /\ \E key \in Keys(oldMap) \cap Keys(newMap) :
                 MapGet(oldMap, key) # MapGet(newMap, key) /\ ReportsOf(key) # {}
           /\ \E key \in Keys(oldMap) \cap Keys(newMap) :
                 MapGet(oldMap, key) = MapGet(newMap, key) /\ ReportsOf(key) = {}

\* C6 as stated: a key present in only one of the two documents is always
\* reported as a change, whatever its value, with the missing side shown as "0".
C6_OneSidedAlwaysReported ==
    npc = "returned" =>
        LET oldMap == ValueMap(callOldText)
            newMap == ValueMap(callNewText)
        IN  /\ \A key \in Keys(oldMap) \ Keys(newMap) :
                  \E i \in ReportsOf(key) :
                     /\ comparison[i].oldValue = MapGet(oldMap, key)
                     /\ comparison[i].newValue = <<"0">>
            /\ \A key \in Keys(newMap) \ Keys(oldMap) :
                  \E i \in ReportsOf(key) :
                     /\ comparison[i].oldValue = <<"0">>
                     /\ comparison[i].newValue = MapGet(newMap, key)

\* C6 amended: a key present in only one of the two documents is reported as a
\* change, with the missing side shown as "0", unless its value is the string
\* "0"; a one-sided key of value "0" is not reported.
C6_OneSidedReportedUnlessZero ==
    npc = "returned" =>
        LET oldMap == ValueMap(callOldText)
            newMap == ValueMap(callNewText)
        IN  /\ \A key \in Keys(oldMap) \ Keys(newMap) :
                  IF MapGet(oldMap, key) # <<"0">>
                  THEN \E i \in ReportsOf(key) :
                          /\ comparison[i].oldValue = MapGet(oldMap, key)
                          /\ comparison[i].newValue = <<"0">>
                  ELSE ReportsOf(key) = {}
            /\ \A key \in Keys(newMap) \ Keys(oldMap) :
                  IF MapGet(newMap, key) # <<"0">>
                  THEN \E i \in ReportsOf(key) :
                          /\ comparison[i].oldValue = <<"0">>
                          /\ comparison[i].newValue = MapGet(newMap, key)
                  ELSE ReportsOf(key) = {}

\* C6 witness: a call returned where one one-sided key has the value "0" and
\* is not reported and another one-sided key is reported against "0"
C6_Witness ==
    /\ npc = "returned"
    /\ LET oldMap == ValueMap(callOldText)
           newMap == ValueMap(callNewText)
       IN  /\ \E key \in Keys(newMap) \ Keys(oldMap) :
                 MapGet(newMap, key) = <<"0">> /\ ReportsOf(key) = {}
           /\ \E key \in Keys(oldMap) \ Keys(newMap) :
                 \E i \in ReportsOf(key) : comparison[i].newValue = <<"0">>

(***************************************************************************)
(* Properties of handleCompare                                             *)
(***************************************************************************)
TitlesOf(secs) == {secs[i].title : i \in 1..Len(secs)}

Listed == {combinedSections[i] : i \in 1..Len(combinedSections)}

\* the place of a listed title in combinedSections
PlaceOf(title) == CHOOSE i \in 1..Len(combinedSections) : combinedSections[i] = title

\* the values of a list of parts, one after the other
RECURSIVE ValuesOf(_)
ValuesOf(parts) == IF parts = <<>> THEN <<>> ELSE Head(parts).value \o ValuesOf(Tail(parts))

\* C4 as stated: after handleCompare in numeric-only mode, a selected title
\* whose old and new texts differ in the value of a key = value line is in the
\* comparison results with a numeric change for that key, and a selected title
\* without such a difference is not in the results.
C4_NumericModeReportsKeys ==
    [][(HandleCompare /\ onlyNumeric) =>
          \A title \in Listed :
             IsSelected(selectedSections, title) =>
                LET expected == parseNumericComparison(TextOf(oldPdfSections, title),
                                                       TextOf(newPdfSections, title))
                    entries  == {k \in 1..Len(comparisonResult') :
                                    comparisonResult'[k].title = title}
                IN  IF expected # <<>>
                    THEN /\ entries # {}
                         /\ \A k \in entries :
                               \A c \in 1..Len(expected) :
                                  \E j \in 1..Len(comparisonResult'[k].numericChanges) :
                                     comparisonResult'[k].numericChanges[j].category
                                        = expected[c].category
                    ELSE entries = {}]_vars

\* C7: after handleCompare in text mode, every entry of comparisonResult is for
\* a listed, selected title and has at least one part, each part added or
\* removed; the entries follow the order of combinedSections; a selected title
\* whose trimmed texts are identical has no entry; a title missing from one
\* document is compared against the empty string, so its entry has only added
\* parts (missing from the old document) or only removed parts (missing from
\* the new one) that make up the text of the other side.
C7_TextModeResults ==
    [][(HandleCompare /\ ~onlyNumeric) =>
          LET res     == comparisonResult'
              entryOf(title) == {k \in 1..Len(res) : res[k].title = title}
              chosen  == {t \in Listed : IsSelected(selectedSections, t)}
          IN  /\ \A k \in 1..Len(res) :
                    /\ res[k].title \in chosen
                    /\ "changes" \in DOMAIN res[k]
                    /\ Len(res[k].changes) > 0
                    /\ \A j \in 1..Len(res[k].changes) :
                          res[k].changes[j].added # res[k].changes[j].removed
              /\ \A k, m \in 1..Len(res) :
                    k < m => PlaceOf(res[k].title) < PlaceOf(res[m].title)
              /\ \A t \in chosen :
                    /\ Trim(TextOf(oldPdfSections, t)) = Trim(TextOf(newPdfSections, t))
                          => entryOf(t) = {}
                    /\ Tokens(TextOf(oldPdfSections, t)) # Tokens(TextOf(newPdfSections, t))
                          => entryOf(t) # {}
                    /\ t \notin TitlesOf(oldPdfSections) =>
                          \A k \in entryOf(t) :
                             /\ \A j \in 1..Len(res[k].changes) : res[k].changes[j].added
                             /\ ValuesOf(res[k].changes)
                                   = ValuesOf([i \in 1..Len(Tokens(TextOf(newPdfSections, t)))
                                                 |-> [value |-> Tokens(TextOf(newPdfSections, t))[i]]])
                    /\ t \notin TitlesOf(newPdfSections) =>
                          \A k \in entryOf(t) :
                             /\ \A j \in 1..Len(res[k].changes) : res[k].changes[j].removed
                             /\ ValuesOf(res[k].changes)
                                   = ValuesOf([i \in 1..Len(Tokens(TextOf(oldPdfSections, t)))
                                                 |-> [value |-> Tokens(TextOf(oldPdfSections, t))[i]]])]_vars

\* C7 witness: a text comparison left an entry for one selected title and none
\* for another selected title whose two texts differ only in outer white space,
\* while a deselected title with different texts has no entry either
C7_Witness ==
    /\ ~onlyNumeric
    /\ Len(comparisonResult) > 0
    /\ \A k \in 1..Len(comparisonResult) : "changes" \in DOMAIN comparisonResult[k]
    /\ \E t \in Listed :
          /\ IsSelected(selectedSections, t)
          /\ TextOf(oldPdfSections, t) # TextOf(newPdfSections, t)
          /\ Trim(TextOf(oldPdfSections, t)) = Trim(TextOf(newPdfSections, t))
          /\ \A k \in 1..Len(comparisonResult) : comparisonResult[k].title # t
    /\ \E t \in Listed :
          /\ ~IsSelected(selectedSections, t)
          /\ Tokens(TextOf(oldPdfSections, t)) # Tokens(TextOf(newPdfSections, t))
          /\ \A k \in 1..Len(comparisonResult) : comparisonResult[k].title # t

(***************************************************************************)
(* Properties of handleExport                                              *)
(***************************************************************************)
\* part i opens a row: it is removed, or it is added and not taken by a removed
\* part just before it
OpensRow(changes, i) ==
    \/ changes[i].removed
    \/ changes[i].added /\ (i = 1 \/ ~changes[i - 1].removed)

\* the parts that open a row, in order
RowHeads(changes) ==
    SelectSeq([i \in 1..Len(changes) |-> i], LAMBDA i : OpensRow(changes, i))

\* C8: the rows written for one section's changed parts are, left to right: a
\* row with both values for a removed part with an added part right after it,
\* an old-only row for a removed part without one, a new-only row for an added
\* part not taken by the removed part before it; every part is in exactly one row.
C8_RowPairing ==
    written # <<>> =>
        LET changes == comparisonResult[1].changes
            rows    == written[1]
            heads   == RowHeads(changes)
            paired(i) == changes[i].removed /\ i < Len(changes) /\ changes[i + 1].added
        IN  /\ Len(rows) = Len(heads)
            /\ \A k \in 1..Len(heads) :
                  LET i == heads[k]
                  IN  IF paired(i)
                      THEN /\ rows[k].oldValue = changes[i].value
                           /\ rows[k].newValue = changes[i + 1].value
                      ELSE IF changes[i].removed
                      THEN /\ rows[k].oldValue = changes[i].value
                           /\ rows[k].newValue = <<>>
                      ELSE /\ rows[k].oldValue = <<>>
                           /\ rows[k].newValue = changes[i].value
            /\ \A i \in 1..Len(changes) :
                  Cardinality({k \in 1..Len(heads) :
                                  heads[k] = i \/ (paired(heads[k]) /\ heads[k] + 1 = i)}) = 1

\* C8 witness: [removed A, added B, removed B] was written as {old A, new B}
\* and {old B, new empty}
C8_Witness ==
    /\ written # <<>>
    /\ Len(comparisonResult[1].changes) = 3
    /\ comparisonResult[1].changes[1] = [value |-> <<"A">>, added |-> FALSE, removed |-> TRUE]
    /\ comparisonResult[1].changes[2] = [value |-> <<"B">>, added |-> TRUE, removed |-> FALSE]
    /\ comparisonResult[1].changes[3] = [value |-> <<"B">>, added |-> FALSE, removed |-> TRUE]
    /\ Len(written[1]) = 2
    /\ written[1][1].oldValue = <<"A">> /\ written[1][1].newValue = <<"B">>
    /\ written[1][2].oldValue = <<"B">> /\ written[1][2].newValue = <<>>

(***************************************************************************)
(* Properties of the extraction runs and the section selection             *)
(***************************************************************************)
\* run r is pending before the step and resolved after it
Resolves(r) ==
    /\ r \in 1..Len(runs)
    /\ runs[r].state = "pending"
    /\ runs'[r].state = "resolved"

\* run r is pending before the step and rejected after it
Rejects(r) ==
    /\ r \in 1..Len(runs)
    /\ runs[r].state = "pending"
    /\ runs'[r].state = "rejected"

\* C9: after every recomputation that follows a change of the section lists,
\* combinedSections is the sorted, duplicate-free union of the old and new
\* titles and selectedSections maps exactly those titles to true.
C9_SelectionRecomputed ==
    [][(\E r \in 1..Len(runs) : Resolves(r)) =>
          LET union == TitlesOf(oldPdfSections') \cup TitlesOf(newPdfSections')
          IN  /\ {combinedSections'[i] : i \in 1..Len(combinedSections')} = union
              /\ \A i, j \in 1..Len(combinedSections') :
                    i < j => StrLess(combinedSections'[i], combinedSections'[j])
              /\ DOMAIN selectedSections' = union
              /\ \A t \in union : selectedSections'[t] = TRUE]_vars

\* C9 witness: a recomputation replaced a selection in which one title of the
\* new union was deselected and which had a title that is not in the new union
C9_Witness ==
    /\ \A t \in DOMAIN selectedSections : selectedSections[t]
    /\ DOMAIN selectedSections = TitlesOf(oldPdfSections) \cup TitlesOf(newPdfSections)
    /\ \E t \in DOMAIN replacedSelection \cap DOMAIN selectedSections :
          ~replacedSelection[t]
    /\ DOMAIN replacedSelection \ DOMAIN selectedSections # {}

\* C10: the two section lists change only in the step in which a run whose two
\* parsePdf tasks have both fulfilled resolves, and then both lists are the
\* results for that run's two files; a run that is rejected changes neither list.
C10_JoinBarrier ==
    [][/\ (oldPdfSections' # oldPdfSections \/ newPdfSections' # newPdfSections) =>
             \E r \in 1..Len(runs) :
                /\ Resolves(r)
                /\ Content(runs[r].old).decodable
                /\ Content(runs[r].new).decodable
                /\ "ok" \in {runs[r].oldTask, runs[r].newTask}
                /\ oldPdfSections' = ParsePdf(Content(runs[r].old)).sections
                /\ newPdfSections' = ParsePdf(Content(runs[r].new)).sections
       /\ \A r \in 1..Len(runs) :
             Rejects(r) => UNCHANGED <<oldPdfSections, newPdfSections>>]_vars

\* C10 witness: while a second run has one task fulfilled and the other
\* pending, both lists are still what the first run wrote
C10_Witness ==
    /\ Len(runs) = 2
    /\ runs[1].state = "resolved"
    /\ runs[2].state = "pending"
    /\ "ok" \in {runs[2].oldTask, runs[2].newTask}
    /\ oldPdfSections # <<>>
    /\ newPdfSections # <<>>
    /\ \/ oldPdfSections # ParsePdf(Content(runs[2].old)).sections
       \/ newPdfSections # ParsePdf(Content(runs[2].new)).sections


(***************************************************************************)
(* Properties of outline resolution                                        *)
(***************************************************************************)
\* the outline's nodes in depth-first order, each with its trimmed title, its
\* depth and the page its destination leads to (Null when it has no destination
\* or the lookup fails)
RECURSIVE NodesWithPage(_, _)
NodesWithPage(items, level) ==
    IF items = <<>> THEN <<>>
    ELSE <<[title |-> Trim(Head(items).title),
            level |-> level,
            page  |-> IF Head(items).dest.kind # "none" /\ Head(items).dest.page >= 1
                      THEN Head(items).dest.page ELSE Null]>>
         \o NodesWithPage(Head(items).items, level + 1)
         \o NodesWithPage(Tail(items), level)

\* the titled nodes, with their pages
TitledNodesWithPage ==
    IF pdf.outline.isNull THEN <<>>
    ELSE SelectSeq(NodesWithPage(pdf.outline.items, 0), LAMBDA n : n.title # <<>>)

\* the titled nodes that are the first of their title: the sections dedup keeps
FirstNodes ==
    LET nodes == TitledNodesWithPage
        RECURSIVE From(_)
        From(i) == IF i > Len(nodes) THEN <<>>
                   ELSE (IF \A j \in 1..(i - 1) : nodes[j].title # nodes[i].title
                         THEN <<nodes[i]>> ELSE <<>>) \o From(i + 1)
    IN  From(1)

\* the index in `emitted` of the first section of a title
EmittedAt(title) ==
    CHOOSE e \in 1..Len(emitted) :
        /\ emitted[e].title = title
        /\ \A j \in 1..(e - 1) : emitted[j].title # title

\* C14: the final section list is a function of the outline, the destination
\* outcomes and the page count: it holds one section per emitted title, ordered
\* by the start page the traversal gave it and, among sections of one such
\* page, by their order of emission, with the start page clamped to P and the
\* level of the emitted section.  Two runs on the same input give the same list.
C14_DeterministicOrder ==
    (ppc \in {"extract", "done"} /\ parseMode = "TOC") =>
        /\ {sections[i].title : i \in 1..Len(sections)}
              = {emitted[e].title : e \in 1..Len(emitted)}
        /\ \A i \in 1..Len(sections) :
              LET e == EmittedAt(sections[i].title)
              IN  /\ sections[i].startPage
                        = (IF emitted[e].startPage <= pdf.numPages
                           THEN emitted[e].startPage ELSE pdf.numPages)
                  /\ sections[i].level = emitted[e].level
        /\ \A i, j \in 1..Len(sections) :
              i < j =>
                 LET ei == EmittedAt(sections[i].title)
                     ej == EmittedAt(sections[j].title)
                 IN  \/ emitted[ei].startPage < emitted[ej].startPage
                     \/ emitted[ei].startPage = emitted[ej].startPage /\ ei < ej

\* C14 witness: a parse ended with two sections that share their start page
C14_Witness ==
    /\ ppc = "done"
    /\ parseMode = "TOC"
    /\ \E i, j \in 1..Len(sections) :
          /\ i < j
          /\ emitted[EmittedAt(sections[i].title)].startPage
                = emitted[EmittedAt(sections[j].title)].startPage

\* C15: in the final section list the start pages are non-decreasing and every
\* start page is in 1..P.
C15_PagesOrderedInRange ==
    ppc \in {"extract", "done"} =>
        /\ \A i \in 1..Len(sections) :
              1 <= sections[i].startPage /\ sections[i].startPage <= pdf.numPages
        /\ \A i \in 1..(Len(sections) - 1) :
              sections[i].startPage <= sections[i + 1].startPage

\* C15 witness: a parse ended with resolved and unresolved nodes, one of them
\* with a start page beyond the last page before the clamp
C15_Witness ==
    /\ ppc = "done"
    /\ parseMode = "TOC"
    /\ Len(sections) >= 2
    /\ \E e \in 1..Len(emitted) : emitted[e].startPage > pdf.numPages
    /\ \E n \in 1..Len(FirstNodes) : FirstNodes[n].page # Null
    /\ \E n \in 1..Len(FirstNodes) : FirstNodes[n].page = Null

\* C16: whatever lookups fail, the traversal emits one section for every
\* outline node of non-empty trimmed title, at any depth, in depth-first order
\* with that node's title and level, and the parse goes on to return sections.
C16_FailuresNotFatal ==
    /\ ppc # "outline" =>
          /\ Len(emitted) = Len(TitledNodesWithPage)
          /\ \A i \in 1..Len(emitted) :
                /\ emitted[i].title = TitledNodesWithPage[i].title
                /\ emitted[i].level = TitledNodesWithPage[i].level
    /\ ppc = "done" =>
          /\ Len(extractedSections) = Len(sections)
          /\ Len(extractedSections) >= 1

\* C16 witness: a parse ended on an outline whose root node has a destination
\* that failed to resolve and a titled child, and the child was emitted
C16_Witness ==
    /\ ppc = "done"
    /\ ~pdf.outline.isNull
    /\ Len(pdf.outline.items) = 1
    /\ pdf.outline.items[1].dest.kind # "none"
    /\ pdf.outline.items[1].dest.page = 0
    /\ Len(pdf.outline.items[1].items) = 1
    /\ Trim(pdf.outline.items[1].items[1].title) # <<>>
    /\ \E e \in 1..Len(emitted) :
          /\ emitted[e].level = 1
          /\ emitted[e].title = Trim(pdf.outline.items[1].items[1].title)

\* the sections dedup keeps whose page was not resolved, in order
UnresolvedFirst == SelectSeq(FirstNodes, LAMBDA n : n.page = Null)

\* C17 as stated: when at least one kept section has a resolved page, the k
\* kept sections without a resolved page start at ceil(P / (k + 1)) * r, r being
\* the section's rank among them, clamped to P.
C17_UnresolvedSpreadEvenly ==
    (ppc \in {"extract", "done"} /\ parseMode = "TOC"
       /\ \E n \in 1..Len(FirstNodes) : FirstNodes[n].page # Null) =>
        LET k    == Len(UnresolvedFirst)
            step == (pdf.numPages + k) \div (k + 1)
        IN  \A r \in 1..k :
               \E i \in 1..Len(sections) :
                  /\ sections[i].title = UnresolvedFirst[r].title
                  /\ sections[i].startPage
                        = (IF step * r <= pdf.numPages THEN step * r ELSE pdf.numPages)

\* C20 as stated: a section emitted from an outline node has hasValidPage true
\* exactly when the node's page was resolved from its destination, and a node
\* whose page was not resolved is emitted with hasValidPage false and the start
\* page (number of sections emitted before it) + 1.
C20_HasValidPageIffResolved ==
    ppc # "outline" =>
        \A i \in 1..Len(emitted) :
           i <= Len(TitledNodesWithPage) =>
              /\ emitted[i].hasValidPage <=> (TitledNodesWithPage[i].page # Null)
              /\ TitledNodesWithPage[i].page = Null =>
                    /\ ~emitted[i].hasValidPage
                    /\ emitted[i].startPage = i


(***************************************************************************)
(* Properties of file selection, failed runs and export                    *)
(***************************************************************************)
\* C11 as stated: when a document of the selected pair failed to decode, the run
\* for the pair having been rejected, a handleCompare that follows produces no
\* comparison result from section data.
C11_NoCompareAfterFailedRun ==
    [][(/\ HandleCompare
        /\ Len(runs) > 0
        /\ runs[Len(runs)].state = "rejected"
        /\ (~Content(oldPdf).decodable \/ ~Content(newPdf).decodable))
          => comparisonResult' = <<>>]_vars

\* C12: choosing no file or a file that is not a PDF in one slot sets the
\* error "Please select a valid PDF file.", starts no extraction run, and leaves
\* the file and the file name of the other slot as they were.
C12_RejectedFileLeavesOtherSlot ==
    [][\A type \in {"old", "new"}, file \in AppFiles :
          ((file = NoFile \/ file.type # "application/pdf") /\ HandleFileChange(type, file)) =>
             /\ error' = InvalidFileError
             /\ runs' = runs
             /\ isLoading' = isLoading
             /\ type = "old" => (newPdf' = newPdf /\ newPdfName' = newPdfName
                                 /\ oldPdf' = NoFile /\ oldPdfName' = "")
             /\ type = "new" => (oldPdf' = oldPdf /\ oldPdfName' = oldPdfName
                                 /\ newPdf' = NoFile /\ newPdfName' = "")]_vars

\* C12 witness: after a run was started for a pair, a rejected choice emptied
\* the old slot while the new slot still holds its accepted file and name,
\* and no further run was started
C12_Witness ==
    /\ error = InvalidFileError
    /\ oldPdf = NoFile
    /\ oldPdfName = ""
    /\ newPdf # NoFile
    /\ newPdfName = newPdf.name
    /\ Len(runs) = 1

\* C13: handleExport writes a file only with at least one row: with no row it
\* sets the error "No differences to export." and writes nothing; with rows it
\* writes one file holding them and leaves the error as it was.
C13_ExportNeverEmpty ==
    [][HandleExport =>
          LET rows == ExportData(comparisonResult, onlyNumeric)
          IN  /\ IF Len(rows) = 0
                 THEN error' = NoDiffError /\ written' = written
                 ELSE written' = <<rows>> /\ error' = error
              /\ \A f \in 1..Len(written') : Len(written'[f]) > 0]_vars

\* C13 witness: an export wrote a file with rows and no error is set
C13_Witness ==
    /\ Len(comparisonResult) > 0
    /\ Len(written) = 1
    /\ Len(written[1]) > 0
    /\ error = NoError

\* C18 as stated: when a run resolves, the fallback notice is set exactly when
\* one of the two documents of that run was segmented in PAGES mode, and the
\* run sets no error.
C18_NoticeIffPagesMode ==
    [][\A r \in 1..Len(runs) :
          Resolves(r) =>
             LET pagesMode == \/ ParsePdf(Content(runs[r].old)).mode = "PAGES"
                              \/ ParsePdf(Content(runs[r].new)).mode = "PAGES"
             IN  /\ (fallbackMessage' = FallbackNotice) <=> pagesMode
                 /\ error' = error]_vars

\* C19 as stated: when a document of a run fails to decode, the error that is
\* reported names the file that failed.
C19_ErrorNamesFile ==
    [][\A r \in 1..Len(runs) :
          Rejects(r) =>
             \E f \in {runs[r].old, runs[r].new} :
                /\ ~Content(f).decodable
                /\ \E i \in 1..Len(error') : error'[i] = f.name]_vars


(***************************************************************************)
(* Properties of page estimation and of the text extraction                *)
(***************************************************************************)
\* C21 as stated: when no kept section has a resolved page, the section at
\* 0-based position i after dedup, of n sections, starts at
\* min(P, ceil(P / n) * i + 1).
C21_AllUnresolvedSpread ==
    (ppc \in {"extract", "done"} /\ parseMode = "TOC"
       /\ \A n \in 1..Len(FirstNodes) : FirstNodes[n].page = Null) =>
        LET n    == Len(FirstNodes)
            step == (pdf.numPages + n - 1) \div n
        IN  /\ Len(sections) = n
            /\ \A i \in 0..(n - 1) :
                  /\ sections[i + 1].title = FirstNodes[i + 1].title
                  /\ sections[i + 1].startPage
                        = (IF step * i + 1 <= pdf.numPages
                           THEN step * i + 1 ELSE pdf.numPages)

\* the pages fetched during the extraction, in the order of their fetch
RECURSIVE Flatten(_)
Flatten(lists) == IF lists = <<>> THEN <<>> ELSE Head(lists) \o Flatten(Tail(lists))

\* C22: during the extraction the pages are fetched in strictly increasing
\* order over the whole run, so none is fetched twice, every fetched page is in
\* 1..P, and the sections are processed in the order of the final section list.
C22_FetchesIncreasing ==
    ppc = "done" =>
        LET fetched == Flatten(pagesRead)
        IN  /\ \A k \in 1..Len(fetched) : fetched[k] \in 1..pdf.numPages
            /\ \A k \in 1..(Len(fetched) - 1) : fetched[k] < fetched[k + 1]
            /\ Len(pagesRead) = Len(sections)
            /\ \A i \in 1..Len(pagesRead) :
                  \A k \in 1..Len(pagesRead[i]) :
                     /\ pagesRead[i][k] >= sections[i].startPage
                     /\ i < Len(sections) => pagesRead[i][k] < sections[i + 1].startPage

\* C22 witness: an extraction over two outline sections, each with a page of
\* its own, the second section reading two pages
C22_Witness ==
    /\ ppc = "done"
    /\ parseMode = "TOC"
    /\ Len(pagesRead) = 2
    /\ Len(pagesRead[1]) = 1
    /\ Len(pagesRead[2]) = 2

\* the texts of a list, joined with one space between neighbours
RECURSIVE JoinWithSpace(_)
JoinWithSpace(texts) ==
    IF texts = <<>> THEN <<>>
    ELSE IF Len(texts) = 1 THEN texts[1]
    ELSE texts[1] \o <<" ">> \o JoinWithSpace(Tail(texts))

\* C23 as stated: the text of an extracted section is the texts of its pages,
\* in page order, joined with a single space between consecutive pages, and
\* the extracted list has the length and the order of the final section list.
C23_PagesJoinedWithSpace ==
    ppc = "done" =>
        /\ Len(extractedSections) = Len(sections)
        /\ \A i \in 1..Len(sections) :
              /\ extractedSections[i].title = sections[i].title
              /\ extractedSections[i].text
                    = JoinWithSpace([k \in 1..Len(pagesRead[i]) |->
                                        JoinWithSpace(pdf.pages[pagesRead[i][k]])])


(***************************************************************************)
(* Properties of the line parsing of parseNumericComparison                *)
(***************************************************************************)
\* the index of the first "=" of a line, 0 when it has none
FirstEq(line) ==
    IF \E i \in 1..Len(line) : line[i] = "="
    THEN CHOOSE i \in 1..Len(line) : line[i] = "=" /\ \A j \in 1..(i - 1) : line[j] # "="
    ELSE 0

\* a line parsed at its first "=": the trimmed text before it and the trimmed
\* text after it, later "=" included
KeyAtFirstEq(line) == Trim(SubSeq(line, 1, FirstEq(line) - 1))

ValueAfterFirstEq(line) == Trim(SubSeq(line, FirstEq(line) + 1, Len(line)))

\* the lines of a text that have a "=", a key and a value
ParsedLines(text) ==
    SelectSeq(NonBlankLines(text),
              LAMBDA line : /\ FirstEq(line) > 0
                            /\ KeyAtFirstEq(line) # <<>>
                            /\ ValueAfterFirstEq(line) # <<>>)

KeysAtFirstEq(text) == {KeyAtFirstEq(ParsedLines(text)[i]) : i \in 1..Len(ParsedLines(text))}

\* the value of the last parsed line of a key, "0" when the text has none
LastValue(text, key) ==
    LET lines == ParsedLines(text)
        at    == {i \in 1..Len(lines) : KeyAtFirstEq(lines[i]) = key}
    IN  IF at = {} THEN <<"0">>
        ELSE ValueAfterFirstEq(lines[CHOOSE i \in at : \A j \in at : j <= i])

\* C24 as stated: every non-blank line is parsed at its first "=", the key
\* being the trimmed text before it and the value the trimmed text after it,
\* later "=" included; lines without "=", key or value are skipped; of several
\* lines of one key the last one's value is compared.
C24_ParsedAtFirstEq ==
    npc = "returned" =>
        LET keys == KeysAtFirstEq(callOldText) \cup KeysAtFirstEq(callNewText)
        IN  /\ \A i \in 1..Len(comparison) :
                  /\ comparison[i].category \in keys
                  /\ comparison[i].oldValue = LastValue(callOldText, comparison[i].category)
                  /\ comparison[i].newValue = LastValue(callNewText, comparison[i].category)
            /\ \A key \in keys :
                  LastValue(callOldText, key) # LastValue(callNewText, key)
                     => \E i \in 1..Len(comparison) : comparison[i].category = key


(***************************************************************************)
(* Properties of the exported rows of a comparison                         *)
(***************************************************************************)
\* the whole diff of a title's two texts, unchanged parts included (App.js 308)
FullDiff(title) ==
    diffLines(Trim(TextOf(oldPdfSections, title)), Trim(TextOf(newPdfSections, title)))

\* C25 as stated: a row with both an old and a new value is written only for a
\* removed part and an added part that are next to each other in the diff of
\* the section's texts; a removed part and a later added part with an unchanged
\* part between them are written as two rows.
C25_ReplaceOnlyWhenAdjacent ==
    [][HandleExport =>
          \A f \in 1..Len(written') :
             \A k \in 1..Len(written'[f]) :
                LET row  == written'[f][k]
                    full == FullDiff(row.sectionTitle)
                IN  (row.oldValue # <<>> /\ row.newValue # <<>>) =>
                       \E i \in 1..(Len(full) - 1) :
                          /\ full[i].removed
                          /\ full[i + 1].added
                          /\ Trim(full[i].value) = row.oldValue
                          /\ Trim(full[i + 1].value) = row.newValue]_vars

\* C29 as stated: the Difference Type of every written row is the mode the
\* comparison result was computed in: Textual for the rows of a text
\* comparison, Numeric for the rows of a numeric comparison, whatever the
\* numeric-only option is when handleExport runs.
C29_TypeReflectsCompareMode ==
    [][HandleExport =>
          \A f \in 1..Len(written') :
             \A k \in 1..Len(written'[f]) :
                written'[f][k].differenceType
                   = (IF \A e \in 1..Len(comparisonResult) :
                            "changes" \in DOMAIN comparisonResult[e]
                      THEN "Textual" ELSE "Numeric")]_vars


AllRunsFinished == \A r \in 1..Len(runs) : runs[r].state # "pending"

\* C27 as stated: once all launched runs have finished, the section lists, the
\* fallback notice and the error are those of the currently selected pair: for
\* a pair that decodes, the lists are the results for the two selected files,
\* the notice is set exactly when one of them is segmented by pages, and no
\* parse error is shown.
C27_LatestRunWins ==
    (/\ Len(runs) > 0
     /\ AllRunsFinished
     /\ oldPdf # NoFile
     /\ newPdf # NoFile
     /\ Content(oldPdf).decodable
     /\ Content(newPdf).decodable) =>
        /\ oldPdfSections = ParsePdf(Content(oldPdf)).sections
        /\ newPdfSections = ParsePdf(Content(newPdf)).sections
        /\ (fallbackMessage = FallbackNotice)
              <=> (\/ ParsePdf(Content(oldPdf)).mode = "PAGES"
                   \/ ParsePdf(Content(newPdf)).mode = "PAGES")
        /\ error = NoError

\* C28 as stated: isLoading is true in every state in which a run is in
\* flight, and every title of comparisonResult is in combinedSections.
C28_LoadingWhileInFlight ==
    /\ (\E r \in 1..Len(runs) : runs[r].state = "pending") => isLoading
    /\ \A k \in 1..Len(comparisonResult) :
          \E i \in 1..Len(combinedSections) :
             combinedSections[i] = comparisonResult[k].title


\* the step that ends run r leaves exactly one of the two outcomes of
\* processFiles, with the loading flag down
EndsWithOneOutcome(r) ==
    /\ Resolves(r) =>
          /\ isLoading' = FALSE
          /\ oldPdfSections' = ParsePdf(Content(runs[r].old)).sections
          /\ newPdfSections' = ParsePdf(Content(runs[r].new)).sections
          /\ error' = error
    /\ Rejects(r) =>
          /\ isLoading' = FALSE
          /\ error' # NoError
          /\ oldPdfSections' = oldPdfSections
          /\ newPdfSections' = newPdfSections

\* C30: every extraction run started with both files set eventually finishes
\* when each of its tasks settles, and the step that finishes it sets isLoading
\* to false and either replaces both section lists by the run's results,
\* leaving the error as it was, or sets an error message and leaves both
\* section lists unchanged.
C30_RunsFinish ==
    /\ [][\A r \in 1..MaxRuns : EndsWithOneOutcome(r)]_vars
    /\ \A r \in 1..MaxRuns :
          (r \in 1..Len(runs) /\ runs[r].state = "pending")
             ~> (r \in 1..Len(runs) /\ runs[r].state # "pending")

\* two runs were started and have finished, one with each outcome, and the
\* loading flag is down
C30_Witness ==
    /\ Len(runs) = 2
    /\ \E r \in 1..2 : runs[r].state = "resolved"
    /\ \E r \in 1..2 : runs[r].state = "rejected"
    /\ ~isLoading

====
